---- MODULE Spec2Model ----
(***************************************************************************)
(* Red Specter AI Usage Watchdog: the agent (signature matching, per-run   *)
(* dedup, buffered append to the JSONL event log, the scheduler loop) and  *)
(* the log viewer (line-by-line load, summary).                            *)
(*                                                                         *)
(* Text that the matcher inspects (process names, command-line arguments,  *)
(* patterns) is a sequence of one-character strings, so that lower() and   *)
(* the substring test are computed.  Other text (risk, user, host, ...) is *)
(* an atomic string.                                                       *)
(***************************************************************************)
EXTENDS Integers, Sequences, FiniteSets, TLC

(***************************************************************************)
(* Text helpers                                                            *)
(***************************************************************************)

\* str.lower() on one character: the upper-case letters the inputs use.
LowerChar(c) ==
    CASE c = "A" -> "a" [] c = "B" -> "b" [] c = "C" -> "c" [] c = "D" -> "d"
      [] c = "E" -> "e" [] c = "F" -> "f" [] c = "G" -> "g" [] c = "H" -> "h"
      [] c = "I" -> "i" [] c = "J" -> "j" [] c = "K" -> "k" [] c = "L" -> "l"
      [] c = "M" -> "m" [] c = "N" -> "n" [] c = "O" -> "o" [] c = "P" -> "p"
      [] c = "Q" -> "q" [] c = "R" -> "r" [] c = "S" -> "s" [] c = "T" -> "t"
      [] c = "U" -> "u" [] c = "V" -> "v" [] c = "W" -> "w" [] c = "X" -> "x"
      [] c = "Y" -> "y" [] c = "Z" -> "z" [] OTHER -> c

\* text left as it is
Unfolded(s) == s

\* str.lower()
Lower(s) == [i \in 1..Len(s) |-> LowerChar(s[i])]

\* `pat in s` on Python strings: pat occurs as a contiguous substring.
Contains(s, pat) ==
    \E i \in 0..(Len(s) - Len(pat)) :
        \A j \in 1..Len(pat) : s[i + j] = pat[j]

\* " ".join(list)
RECURSIVE JoinSpace(_)
JoinSpace(l) ==
    IF l = <<>> THEN <<>>
    ELSE IF Len(l) = 1 THEN l[1]
    ELSE l[1] \o <<" ">> \o JoinSpace(Tail(l))

\* A value that may be None: Some(x), or NoneSeq / NoneText (Python's None
\* where a sequence / a string is expected).
Some(x) == [some |-> TRUE, v |-> x]
NoneSeq == [some |-> FALSE, v |-> <<>>]
NoneText == [some |-> FALSE, v |-> ""]

\* `x or default`: None and empty values are falsy.
OrElseSeq(x, default) == IF x.some /\ x.v # <<>> THEN x.v ELSE default
OrElseText(x, default) == IF x.some /\ x.v # "" THEN x.v ELSE default

(***************************************************************************)
(* Signature registry                                                      *)
(***************************************************************************)

PatOllama == <<"o","l","l","a","m","a">>
PatOpenWebui == <<"o","p","e","n","-","w","e","b","u","i">>
PatOpenai == <<"a","p","i",".","o","p","e","n","a","i",".","c","o","m">>
PatAnthropic ==
    <<"a","p","i",".","a","n","t","h","r","o","p","i","c",".","c","o","m">>
PatGemini ==
    <<"g","e","n","e","r","a","t","i","v","e","l","a","n","g","u","a","g","e",
      ".","g","o","o","g","l","e","a","p","i","s",".","c","o","m">>
PatLlm == <<"l","l","m">>

SIGNATURES == <<
    [name |-> "ollama_local_llm",
     description |-> "Local LLM runtime (Ollama)",
     match_type |-> "process_name_contains",
     pattern |-> PatOllama, risk |-> "medium", category |-> "local_llm"],
    [name |-> "open_webui_frontend",
     description |-> "Open WebUI interface",
     match_type |-> "process_name_contains",
     pattern |-> PatOpenWebui, risk |-> "medium", category |-> "local_llm_ui"],
    [name |-> "openai_api_call",
     description |-> "Process calling OpenAI API endpoint",
     match_type |-> "cmdline_contains",
     pattern |-> PatOpenai, risk |-> "high", category |-> "remote_llm"],
    [name |-> "anthropic_api_call",
     description |-> "Process calling Anthropic API endpoint",
     match_type |-> "cmdline_contains",
     pattern |-> PatAnthropic, risk |-> "high", category |-> "remote_llm"],
    [name |-> "google_gemini_api_call",
     description |-> "Process calling Google Gemini / generative AI endpoint",
     match_type |-> "cmdline_contains",
     pattern |-> PatGemini, risk |-> "high", category |-> "remote_llm"],
    [name |-> "generic_llm_keyword",
     description |-> "Process with generic LLM-related keyword in command line",
     match_type |-> "cmdline_contains",
     pattern |-> PatLlm, risk |-> "low", category |-> "generic_ai"] >>

SigNames == {SIGNATURES[i].name : i \in 1..Len(SIGNATURES)}

(***************************************************************************)
(* Matcher                                                                 *)
(***************************************************************************)

\* a matcher without the test of line 109 that falls through to the cmdline
match_fail_open(sig, proc_info) ==
    LET pname == Lower(OrElseSeq(proc_info.name, <<>>))
        cmdline_str == Lower(JoinSpace(OrElseSeq(proc_info.cmdline, <<>>)))
        pattern == Lower(IF "pattern" \in DOMAIN sig THEN sig.pattern ELSE <<>>)
        mtype == IF "match_type" \in DOMAIN sig THEN sig.match_type ELSE ""
    IN IF mtype = "process_name_contains" THEN Contains(pname, pattern)
       ELSE Contains(cmdline_str, pattern)

\* a matcher that looks for every pattern in the process name
match_name_only(sig, proc_info) ==
    LET pname == Lower(OrElseSeq(proc_info.name, <<>>))
        pattern == Lower(IF "pattern" \in DOMAIN sig THEN sig.pattern ELSE <<>>)
        mtype == IF "match_type" \in DOMAIN sig THEN sig.match_type ELSE ""
    IN IF pattern = <<>> \/ mtype = "" THEN FALSE
       ELSE IF mtype \in {"process_name_contains", "cmdline_contains"}
            THEN Contains(pname, pattern)
       ELSE FALSE

\* match_signature(sig, proc_info).  sig.get("pattern", "") and
\* sig.get("match_type", "") read a missing key as "".
match_signature(sig, proc_info) ==
    LET pname == Lower(OrElseSeq(proc_info.name, <<>>))
        cmdline_list == OrElseSeq(proc_info.cmdline, <<>>)
        cmdline_str == Lower(JoinSpace(cmdline_list))
        pattern == Lower(IF "pattern" \in DOMAIN sig THEN sig.pattern ELSE <<>>)
        mtype == IF "match_type" \in DOMAIN sig THEN sig.match_type ELSE ""
    IN IF pattern = <<>> \/ mtype = "" THEN FALSE
       ELSE IF mtype = "process_name_contains" THEN Contains(pname, pattern)
       ELSE IF mtype = "cmdline_contains" THEN Contains(cmdline_str, pattern)
       ELSE FALSE

(***************************************************************************)
(* JSON: values, the serialised form of one line, and the log file         *)
(***************************************************************************)

\* JSON values, tagged by type.  "text" is an atomic string, "chars" a string
\* kept as its characters; both are JSON strings.
JText(s) == [t |-> "text", v |-> s]
JChars(cs) == [t |-> "chars", v |-> cs]
JNum(n) == [t |-> "num", v |-> n]
JList(l) == [t |-> "list", v |-> l]
JNull == [t |-> "null", v |-> 0]

\* The serialised text is a sequence of tokens: the opening brace of an
\* object, its members (the "key": value pairs, in order), the closing brace;
\* one token for a value outside an object; the line terminator; white
\* space; and text that is no JSON at all.  m is the members token's sequence of
\* <<key, value>> pairs.
LBrace == [t |-> "{", m |-> <<>>, v |-> JNull]
RBrace == [t |-> "}", m |-> <<>>, v |-> JNull]
Members(pairs) == [t |-> "members", m |-> pairs, v |-> JNull]
Bare(val) == [t |-> "value", m |-> <<>>, v |-> val]
Newline == [t |-> "nl", m |-> <<>>, v |-> JNull]
Space == [t |-> "ws", m |-> <<>>, v |-> JNull]
Junk == [t |-> "junk", m |-> <<>>, v |-> JNull]

\* The keys of an event dict, in insertion order.
EventKeys ==
    <<"timestamp_utc", "hostname", "username", "pid", "process_name",
      "cmdline", "signature_name", "signature_description", "risk",
      "category", "version", "product">>

\* json.dumps(event, ensure_ascii=False): the members in insertion order
\* between braces.
json_dumps(event) ==
    <<LBrace,
      Members([i \in 1..Len(EventKeys) |-> <<EventKeys[i], event[EventKeys[i]]>>]),
      RBrace>>

\* datetime.isoformat() of the instant n (two digits per instant suffices for
\* the instants of a bounded run).
Digits == <<"0","1","2","3","4","5","6","7","8","9">>
isoformat(n) == <<"T", Digits[(n \div 10) + 1], Digits[(n % 10) + 1]>>

(***************************************************************************)
(* Inputs: the processes the process table can hold                        *)
(***************************************************************************)

Pids == {1234, 4321}

NoProc ==
    [alive |-> FALSE, access |-> FALSE, name |-> NoneSeq, cmdline |-> NoneSeq,
     username |-> NoneText]

Proc(name, cmdline, username, access) ==
    [alive |-> TRUE, access |-> access, name |-> name, cmdline |-> cmdline,
     username |-> username]

ChOllama == <<"o","l","l","a","m","a">>
ChServe == <<"s","e","r","v","e">>
ChCurl == <<"c","u","r","l">>
ChUrl ==
    <<"h","t","t","p","s",":","/","/","a","p","i",".","o","p","e","n","a","i",
      ".","c","o","m","/","v","1","/","c","h","a","t">>
ChOllamaServer == <<"O","L","L","A","M","A","-","s","e","r","v","e","r">>
ChLlmFlag == <<"-","-","L","L","M">>
ChBash == <<"b","a","s","h">>

\* "ollama" with cmdline ["ollama","serve"]
POllama == Proc(Some(ChOllama), Some(<<ChOllama, ChServe>>), Some("alice"), TRUE)
\* cmdline ["curl","https://api.openai.com/v1/chat"]
PCurl == Proc(Some(ChCurl), Some(<<ChCurl, ChUrl>>), Some("bob"), TRUE)
\* matches two signatures: the name and an upper-case keyword in the cmdline
PBoth ==
    Proc(Some(ChOllamaServer), Some(<<ChOllamaServer, ChLlmFlag>>),
         Some("alice"), TRUE)
\* matches nothing
PBash == Proc(Some(ChBash), Some(<<ChBash>>), Some("bob"), TRUE)
\* a process whose fields cannot be read (access denied / zombie)
PDenied == Proc(Some(ChOllama), Some(<<ChOllama, ChServe>>), NoneText, FALSE)
\* a process whose name, cmdline and username come back as None
PBlank == Proc(NoneSeq, NoneSeq, NoneText, TRUE)

\* The processes each pid can hold during a run of the agent.
ProcKinds(p) == IF p = 1234 THEN {POllama, PBoth} ELSE {PBoth, PDenied}

(***************************************************************************)
(* Bounds                                                                  *)
(***************************************************************************)

\* scan cycles of one run
MaxCycles == 2
\* tokens the file object holds before a write flushes it (the io buffer)
BufCap == 5

(***************************************************************************)
(* State                                                                   *)
(***************************************************************************)

VARIABLES
    procs,          \* the OS process table: pid -> process (or NoProc)
    fault,          \* the log's condition: "none", "perm" (cannot be opened),
                    \* "full" (writes to the device fail)
    file,           \* the content of the log file: a sequence of tokens
    exists,         \* the log file exists
    once,           \* args.once
    pc,             \* where main is: "call", "iter", "sigs", "sleep",
                    \* "stopped" (interrupted, goodbye), "exit" (single scan
                    \* done), "crashed" (uncaught exception)
    seen,           \* main's dedup set of <<pid, signature name>>
    events_written, \* scan_once's counter
    events,         \* main's `events`: what the last scan_once returned
    todo,           \* the pids process_iter has still to yield
    info,           \* proc.info of the process being matched
    sig_i,          \* index of the next signature to try on info
    buf,            \* tokens written to the file object and not yet flushed
    is_open,        \* the file object of the `with` is open
    reported,       \* the "[!] Failed to write log file" message was printed
                    \* in the current (last) cycle
    cycle,          \* cycles begun so far; also the clock utc_now_iso reads
    start_len,      \* Len(file) when the current (last) cycle began
    io_failed,      \* an OSError was raised in the current (last) cycle
    seen0,          \* seen as it was when the current (last) cycle began
    skipped,        \* a listed process was skipped in the current (last)
                    \* cycle because it was gone or its fields were denied
    v_pc,           \* where the viewer is: "start", "read", "summary",
                    \* "done", "raised" (an uncaught exception)
    v_off,          \* the viewer's offset into the file
    v_events,       \* load_events' list `events`
    v_out,          \* what print_summary printed
    top_n,          \* args.top of the viewer
    m_sig,          \* match_signature's argument sig
    m_info,         \* match_signature's argument proc_info
    o_seen,         \* the dedup set of another agent instance on the same log
    m_out           \* what match_signature returned: "none" before the
                    \* call, else "true", "false" or "raised"

vars ==
    <<procs, fault, file, exists, once, pc, seen, events_written, events, todo,
      info, sig_i, buf, is_open, reported, cycle, start_len, io_failed, seen0,
      skipped, v_pc, v_off, v_events, v_out, top_n, m_sig, m_info, m_out,
      o_seen>>

view_vars == <<v_pc, v_off, v_events, v_out, top_n>>
match_vars == <<m_sig, m_info, m_out>>
other_vars == <<o_seen>>

env_vars == <<procs, fault>>
scan_vars == <<seen, events_written, todo, info, sig_i, buf, is_open>>

hostname == "host1"

\* What print_summary printed: nothing yet ("none"), the line "No events
\* found in log." ("no_events"), or the summary block with its total and time
\* range; total and time_range are part of the output in a block only.
NoOutput == [block |-> "none", total |-> 0, time_range |-> <<>>]

NoInfo == [pid |-> 0, name |-> NoneSeq, cmdline |-> NoneSeq, username |-> NoneText]

\* the ascending sequence of the elements of a set of integers
RECURSIVE SortedSeq(_)
SortedSeq(S) ==
    IF S = {} THEN <<>>
    ELSE LET m == CHOOSE x \in S : \A y \in S : x <= y
         IN <<m>> \o SortedSeq(S \ {m})

(***************************************************************************)
(* scan_once                                                               *)
(***************************************************************************)

\* The event dict scan_once builds for a match (lines 148-161).
Event(inf, sig, now) ==
    [timestamp_utc |-> JChars(isoformat(now)),
     hostname |-> JText(hostname),
     username |-> JText(OrElseText(inf.username, "unknown")),
     pid |-> JNum(inf.pid),
     process_name |-> JChars(OrElseSeq(inf.name, <<>>)),
     cmdline |-> JList([i \in 1..Len(OrElseSeq(inf.cmdline, <<>>)) |->
                           JChars(OrElseSeq(inf.cmdline, <<>>)[i])]),
     signature_name |-> JText(sig.name),
     signature_description |-> JText(sig.description),
     risk |-> JText(sig.risk),
     category |-> JText(sig.category),
     version |-> JText("v0.1"),
     product |-> JText("Red Specter AI Usage Watchdog")]

\* a write that leaves out the line terminator
LineUnterminated(inf, sig, now) == json_dumps(Event(inf, sig, now))

\* The text one f.write call hands to the file object (line 163).
Line(inf, sig, now) == json_dumps(Event(inf, sig, now)) \o <<Newline>>

\* a dedup that forgets
NeverSeen(key, seenset) == FALSE

\* a dedup that looks at the pid alone
AlreadySeenPid(key, seenset) == \E k \in seenset : k[1] = key[1]

\* `if key in seen: continue`
AlreadySeen(key, seenset) == key \in seenset

\* The signatures, from index i on, that scan_once acts on for inf: those
\* that match and whose key is not in seen (lines 137-144).
Emitting(inf, i, seenset) ==
    {j \in i..Len(SIGNATURES) :
        /\ match_signature(SIGNATURES[j], inf)
        /\ ~AlreadySeen(<<inf.pid, SIGNATURES[j].name>>, seenset)}

\* a flush that replaces the content (the file opened with "w")
OverwriteFile(content, data) == data

\* A flush in append mode ("a", line 125): the data goes after the content.
AppendToFile(content, data) == content \o data

\* What a failed flush leaves on the device: the content and some prefix of
\* the data (a short write followed by the error).
TornWrites(content, data) ==
    {AppendToFile(content, SubSeq(data, 1, n)) : n \in 0..(Len(data) - 1)}

\* The return of scan_once into main (lines 176, 224-226, 230-233).
Returned(n) ==
    /\ events' = n
    /\ pc' = IF once THEN "exit" ELSE "sleep"

\* no handler: the OSError leaves scan_once and main
OSErrorUncaught(n) ==
    /\ io_failed' = TRUE
    /\ pc' = "crashed"
    /\ UNCHANGED <<reported, events>>

\* `except OSError` (lines 173-176): the failure is printed and scan_once
\* returns events_written, which is n by then.
OnOSError(n) ==
    /\ reported' = TRUE
    /\ io_failed' = TRUE
    /\ Returned(n)

\* an open that succeeds whatever the log's condition
OpenAlwaysSucceeds == FALSE

\* open(logfile, "a") raises OSError (line 125): the file cannot be opened
\* or created.
OpenFails == fault = "perm"

\* main, lines 224 and 230: scan_once is called; events_written = 0, then
\* open(logfile, "a") and the first step of process_iter.
ScanBegin ==
    /\ pc = "call"
    /\ cycle' = cycle + 1
    /\ events_written' = 0
    /\ start_len' = Len(file)
    /\ seen0' = seen
    /\ skipped' = FALSE
    /\ IF OpenFails
       THEN \* open raises OSError
            /\ OnOSError(0)
            /\ UNCHANGED <<todo, is_open, exists>>
       ELSE /\ is_open' = TRUE
            /\ exists' = TRUE
            /\ todo' = SortedSeq({p \in Pids : procs[p].alive})
            /\ reported' = FALSE
            /\ io_failed' = FALSE
            /\ pc' = "iter"
            /\ UNCHANGED events
    /\ UNCHANGED <<other_vars, match_vars,
                   view_vars, env_vars, file, once, seen, info, sig_i, buf>>

\* a skip that leaves the loop
SkipAborts ==
    /\ todo' = <<>>
    /\ skipped' = TRUE
    /\ UNCHANGED <<info, sig_i, pc>>

\* `except (NoSuchProcess, AccessDenied, ZombieProcess): continue` (lines
\* 129-130): on to the next process.
SkipProcess ==
    /\ todo' = Tail(todo)
    /\ skipped' = TRUE
    /\ UNCHANGED <<info, sig_i, pc>>

\* process_iter yields the next process; proc.info either is the snapshot or
\* raises NoSuchProcess / AccessDenied / ZombieProcess (lines 126-135).
NextProc ==
    /\ pc = "iter"
    /\ todo # <<>>
    /\ LET p == Head(todo) IN
        IF procs[p].alive /\ procs[p].access
        THEN /\ info' = [pid |-> p, name |-> procs[p].name,
                         cmdline |-> procs[p].cmdline,
                         username |-> procs[p].username]
             /\ sig_i' = 1
             /\ pc' = "sigs"
             /\ UNCHANGED <<todo, skipped>>
        ELSE \* gone, or its fields are denied
             SkipProcess
    /\ UNCHANGED <<other_vars, match_vars,
                   view_vars, env_vars, file, exists, once, seen, seen0,
                   events_written, events, buf, is_open, reported, cycle,
                   start_len, io_failed>>

\* The inner loop up to and including the next write: the signatures that do
\* not match or whose key is in seen are passed over; for the first one left,
\* the key is added to seen, the event is built and written (lines 137-164).
\* A write that fills the buffer flushes it to the device, and the flush
\* fails while the device is full.
Emit ==
    /\ pc = "sigs"
    /\ Emitting(info, sig_i, seen) # {}
    /\ LET j == CHOOSE x \in Emitting(info, sig_i, seen) :
                    \A y \in Emitting(info, sig_i, seen) : x <= y
           sig == SIGNATURES[j]
           data == buf \o Line(info, sig, cycle)
       IN /\ seen' = seen \cup {<<info.pid, sig.name>>}
          /\ IF Len(data) <= BufCap
             THEN /\ buf' = data
                  /\ events_written' = events_written + 1
                  /\ sig_i' = j + 1
                  /\ UNCHANGED <<file, pc, events, is_open, reported, io_failed,
                                 todo, info>>
             ELSE IF fault # "full"
             THEN /\ file' = AppendToFile(file, data)
                  /\ buf' = <<>>
                  /\ events_written' = events_written + 1
                  /\ sig_i' = j + 1
                  /\ UNCHANGED <<pc, events, is_open, reported, io_failed,
                                 todo, info>>
             ELSE \* OSError out of f.write; the with block closes the file
                  /\ file' \in TornWrites(file, data)
                  /\ buf' = <<>>
                  /\ is_open' = FALSE
                  /\ todo' = <<>>
                  /\ info' = NoInfo
                  /\ sig_i' = 1
                  /\ OnOSError(events_written)
                  /\ UNCHANGED events_written
    /\ UNCHANGED <<other_vars, match_vars,
                   view_vars, env_vars, exists, once, cycle, start_len, seen0,
                   skipped>>

\* The inner loop runs out of signatures to act on: on to the next process.
ProcDone ==
    /\ pc = "sigs"
    /\ Emitting(info, sig_i, seen) = {}
    /\ pc' = "iter"
    /\ todo' = Tail(todo)
    /\ info' = NoInfo
    /\ sig_i' = 1
    /\ UNCHANGED <<other_vars, match_vars,
                   view_vars, env_vars, file, exists, once, seen, seen0,
                   skipped, events_written, events, buf, is_open, reported,
                   cycle, start_len, io_failed>>

\* process_iter is exhausted: the with block closes the file, which flushes
\* the buffer; then scan_once returns (lines 125, 173-176).
ScanEnd ==
    /\ pc = "iter"
    /\ todo = <<>>
    /\ is_open' = FALSE
    /\ buf' = <<>>
    /\ IF buf = <<>> \/ fault # "full"
       THEN /\ file' = AppendToFile(file, buf)
            /\ Returned(events_written)
            /\ UNCHANGED <<reported, io_failed>>
       ELSE /\ file' \in TornWrites(file, buf)
            /\ OnOSError(events_written)
    /\ UNCHANGED <<other_vars, match_vars,
                   view_vars, env_vars, exists, once, seen, seen0, skipped,
                   events_written, todo, info, sig_i, cycle, start_len>>

(***************************************************************************)
(* main: the scheduler loop and the interrupt                              *)
(***************************************************************************)

\* time.sleep(args.interval) ends and the loop goes round (lines 229-233).
Sleep ==
    /\ pc = "sleep"
    /\ cycle < MaxCycles
    /\ pc' = "call"
    /\ UNCHANGED <<other_vars, match_vars,
                   view_vars, env_vars, file, exists, once, scan_vars, seen0,
                   skipped, events, reported, cycle, start_len, io_failed>>

\* Ctrl+C: KeyboardInterrupt is raised wherever main is.  Inside the with
\* block the file is closed on the way out, which flushes the buffer; an
\* OSError raised by that close replaces the KeyboardInterrupt and is caught
\* at line 173.  Continuous mode catches the interrupt at line 234; the
\* single scan does not.
Interrupt ==
    /\ pc \in {"call", "iter", "sigs", "sleep"}
    /\ IF is_open /\ buf # <<>> /\ fault = "full"
       THEN /\ file' \in TornWrites(file, buf)
            /\ OnOSError(events_written)
       ELSE /\ file' = AppendToFile(file, buf)
            /\ pc' = IF once THEN "crashed" ELSE "stopped"
            /\ UNCHANGED <<reported, io_failed, events>>
    /\ buf' = <<>>
    /\ is_open' = FALSE
    /\ todo' = <<>>
    /\ info' = NoInfo
    /\ sig_i' = 1
    /\ UNCHANGED <<other_vars, match_vars,
                   view_vars, env_vars, exists, once, seen, seen0, skipped,
                   events_written, cycle, start_len>>

(***************************************************************************)
(* The environment: the process table and the log's device                 *)
(***************************************************************************)

agent_vars ==
    <<file, exists, once, pc, seen, events_written, events, todo, info, sig_i,
      buf, is_open, reported, cycle, start_len, io_failed, seen0, skipped>>

\* The environment's steps are taken where they make a difference to the
\* agent.  The process table changes while the agent sleeps; a change during
\* a scan is seen by the scan only if it is the exit of a process that
\* process_iter has listed and not yet yielded.
Asleep == pc = "sleep" /\ cycle < MaxCycles

\* a process starts on a free pid
Spawn ==
    /\ Asleep
    /\ \E p \in Pids : \E k \in ProcKinds(p) :
        /\ ~procs[p].alive
        /\ procs' = [procs EXCEPT ![p] = k]
    /\ UNCHANGED <<other_vars, match_vars, view_vars, agent_vars, fault>>

\* a process exits: while the agent sleeps, or between its listing and the
\* reading of its fields
Exit ==
    /\ \E p \in Pids :
        /\ procs[p].alive
        /\ \/ Asleep
           \/ pc = "iter" /\ \E i \in 1..Len(todo) : todo[i] = p
        /\ procs' = [procs EXCEPT ![p] = NoProc]
    /\ UNCHANGED <<other_vars, match_vars, view_vars, agent_vars, fault>>

\* a process changes its name and command line (exec), keeping its pid
Exec ==
    /\ Asleep
    /\ \E p \in Pids : \E k \in ProcKinds(p) :
        /\ procs[p].alive
        /\ k # procs[p]
        /\ procs' = [procs EXCEPT ![p] = k]
    /\ UNCHANGED <<other_vars, match_vars, view_vars, agent_vars, fault>>

\* The log stops being writable: its permission is revoked ("perm": the next
\* open fails) or its device fills up ("full": the next flush fails).
\* A revocation during a scan shows at the next open, a full device at the
\* next flush.
FaultBegins ==
    /\ fault = "none"
    /\ \/ Asleep /\ fault' \in {"perm", "full"}
       \/ pc = "iter" /\ fault' = "full"
    /\ UNCHANGED <<other_vars, match_vars, view_vars, agent_vars, procs>>

\* the log becomes writable again
FaultEnds ==
    /\ Asleep \/ pc = "iter"
    /\ fault # "none"
    /\ fault' = "none"
    /\ UNCHANGED <<other_vars, match_vars, view_vars, agent_vars, procs>>

(***************************************************************************)
(* The viewer: load_events and print_summary                               *)
(***************************************************************************)

\* str.strip() on a line: the line terminator and white space go, at both
\* ends.
IsBlank(tok) == tok.t = "ws" \/ tok.t = "nl"

RECURSIVE LStrip(_)
LStrip(l) == IF l # <<>> /\ IsBlank(Head(l)) THEN LStrip(Tail(l)) ELSE l

RECURSIVE RStrip(_)
RStrip(l) ==
    IF l # <<>> /\ IsBlank(l[Len(l)]) THEN RStrip(SubSeq(l, 1, Len(l) - 1))
    ELSE l

strip(l) == RStrip(LStrip(l))

\* The dict json.loads builds from an object's members: a later member with
\* the same key replaces an earlier one.
DictOf(pairs) ==
    [k \in {pairs[i][1] : i \in 1..Len(pairs)} |->
        pairs[CHOOSE i \in 1..Len(pairs) :
                 /\ pairs[i][1] = k
                 /\ \A j \in (i + 1)..Len(pairs) : pairs[j][1] # k][2]]

JDict(d) == [t |-> "dict", v |-> d]

\* json.loads(line): the value, or JSONDecodeError (ok = FALSE).  Any JSON
\* value is accepted, an object or not.
json_loads(l) ==
    IF Len(l) = 1 /\ l[1].t = "value"
        THEN [ok |-> TRUE, val |-> l[1].v]
    ELSE IF Len(l) = 2 /\ l[1].t = "{" /\ l[2].t = "}"
        THEN [ok |-> TRUE, val |-> JDict(<<>>)]
    ELSE IF Len(l) = 3 /\ l[1].t = "{" /\ l[2].t = "members" /\ l[3].t = "}"
        THEN [ok |-> TRUE, val |-> JDict(DictOf(l[2].m))]
    ELSE [ok |-> FALSE, val |-> JNull]

\* The end of the line that starts after offset off: the offset of its line
\* terminator, or the end of the file.
RECURSIVE LineEnd(_, _)
LineEnd(toks, off) ==
    IF off >= Len(toks) THEN Len(toks)
    ELSE IF toks[off + 1].t = "nl" THEN off + 1
    ELSE LineEnd(toks, off + 1)

\* a loop body that keeps a line json.loads rejects, as an empty object
AfterLineKeepsAll(evts, line) ==
    LET l == strip(line)
        r == json_loads(l)
    IN IF l = <<>> THEN evts
       ELSE IF r.ok THEN Append(evts, r.val)
       ELSE Append(evts, JDict(<<>>))

\* One turn of `for line in f` (lines 59-68): the events list after the line.
AfterLine(evts, line) ==
    LET l == strip(line)
        r == json_loads(l)
    IN IF l = <<>> THEN evts
       ELSE IF r.ok THEN Append(evts, r.val)
       ELSE evts

\* load_events on a whole file
RECURSIVE LoadFrom(_, _, _)
LoadFrom(toks, off, evts) ==
    IF off >= Len(toks) THEN evts
    ELSE LoadFrom(toks, LineEnd(toks, off),
                  AfterLine(evts, SubSeq(toks, off + 1, LineEnd(toks, off))))

load_events(toks) == LoadFrom(toks, 0, <<>>)

\* datetime.fromisoformat on the text isoformat produces: the instant, or
\* -1 for None.
DigitValue(c) ==
    IF \E d \in 1..10 : Digits[d] = c
    THEN (CHOOSE d \in 1..10 : Digits[d] = c) - 1 ELSE -1

\* parse_ts(ts): None (-1) for a missing, empty or non-string ts and for text
\* that is no ISO timestamp.
parse_ts(ts) ==
    IF ts.t # "chars" THEN -1
    ELSE IF Len(ts.v) = 3 /\ ts.v[1] = "T" /\ DigitValue(ts.v[2]) >= 0
            /\ DigitValue(ts.v[3]) >= 0
        THEN 10 * DigitValue(ts.v[2]) + DigitValue(ts.v[3])
    ELSE -1

\* evt.get(key, default) on a loaded event that is a dict
Get(evt, key, default) ==
    IF key \in DOMAIN evt.v THEN evt.v[key] ELSE default

\* evt.get raises AttributeError on a value that is no dict; Counter raises
\* TypeError on an unhashable (list, dict) value.
Unhashable(val) == val.t \in {"list", "dict"}

SummaryKeys == <<"risk", "signature_name", "username", "hostname">>

SummaryRaises(evts) ==
    \E i \in 1..Len(evts) :
        \/ evts[i].t # "dict"
        \/ \E k \in 1..Len(SummaryKeys) :
              Unhashable(Get(evts[i], SummaryKeys[k], JText("unknown")))

SetMin(S) == CHOOSE x \in S : \A y \in S : x <= y
SetMax(S) == CHOOSE x \in S : \A y \in S : x >= y

\* print_summary's output (lines 83-106): for no events the one line and an
\* early return; else the total and the time range, "unknown" when no
\* timestamp parses.
Summary(evts) ==
    IF evts = <<>>
    THEN [block |-> "no_events", total |-> 0, time_range |-> <<>>]
    ELSE LET ts == {parse_ts(Get(evts[i], "timestamp_utc", JNull)) :
                       i \in 1..Len(evts)} \ {-1}
         IN [block |-> "summary",
             total |-> Len(evts),
             time_range |-> IF ts = {} THEN <<"unknown">>
                            ELSE <<"range", SetMin(ts), SetMax(ts)>>]

\* The values one Counter of print_summary is fed (lines 88-91), in the order
\* of the events.
ValuesOf(evts, key) ==
    [i \in 1..Len(evts) |-> Get(evts[i], key, JText("unknown"))]

\* The keys of a Counter in insertion order: each value where it first occurs.
RECURSIVE FirstSeen(_)
FirstSeen(vals) ==
    IF vals = <<>> THEN <<>>
    ELSE LET rest == FirstSeen(SubSeq(vals, 1, Len(vals) - 1))
             x == vals[Len(vals)]
         IN IF \E i \in 1..Len(rest) : rest[i] = x THEN rest
            ELSE Append(rest, x)

CountOf(vals, x) == Cardinality({i \in 1..Len(vals) : vals[i] = x})

\* sorted(items, key=count, reverse=True): the sort is stable, so values with
\* equal counts keep the Counter's insertion order.
RECURSIVE ByCount(_, _)
ByCount(items, vals) ==
    IF items = <<>> THEN <<>>
    ELSE LET best == CHOOSE i \in 1..Len(items) :
                 /\ \A j \in 1..Len(items) :
                        CountOf(vals, items[j]) <= CountOf(vals, items[i])
                 /\ \A j \in 1..(i - 1) :
                        CountOf(vals, items[j]) < CountOf(vals, items[i])
         IN <<items[best]>>
            \o ByCount([k \in 1..(Len(items) - 1) |->
                           IF k < best THEN items[k] ELSE items[k + 1]],
                       vals)

\* counter.most_common(top) as print_counter prints it (lines 109-117): the
\* first `top` <<item, count>> rows; none for top <= 0.
most_common(vals, top) ==
    LET sorted == ByCount(FirstSeen(vals), vals)
        n == IF top <= 0 THEN 0
             ELSE IF top < Len(sorted) THEN top ELSE Len(sorted)
    IN [i \in 1..n |-> <<sorted[i], CountOf(vals, sorted[i])>>]

\* The four tables print_summary prints (lines 119-122).
Tables(evts, top) ==
    [k \in 1..Len(SummaryKeys) |-> most_common(ValuesOf(evts, SummaryKeys[k]), top)]

\* main, lines 137-138: load_events begins; a missing file is reported and
\* gives no events.
ViewStart ==
    /\ v_pc = "start"
    /\ v_events' = <<>>
    /\ v_off' = 0
    /\ v_pc' = IF exists THEN "read" ELSE "summary"
    /\ UNCHANGED <<other_vars, match_vars, top_n, agent_vars, env_vars, v_out>>

\* `for line in f`: the next line of the file as it is now, up to its
\* terminator or to the end of the file.
ViewLine ==
    /\ v_pc = "read"
    /\ v_off < Len(file)
    /\ v_off' = LineEnd(file, v_off)
    /\ v_events' =
           AfterLine(v_events, SubSeq(file, v_off + 1, LineEnd(file, v_off)))
    /\ UNCHANGED <<other_vars, match_vars,
                   top_n, agent_vars, env_vars, v_pc, v_out>>

\* end of file: the loop ends and load_events returns
ViewEof ==
    /\ v_pc = "read"
    /\ v_off >= Len(file)
    /\ v_pc' = "summary"
    /\ UNCHANGED <<other_vars, match_vars,
                   top_n, agent_vars, env_vars, v_off, v_events, v_out>>

\* print_summary(events, top_n)
ViewSummary ==
    /\ v_pc = "summary"
    /\ IF SummaryRaises(v_events)
       THEN v_pc' = "raised" /\ UNCHANGED v_out
       ELSE /\ v_pc' = "done"
            /\ v_out' = IF v_events = <<>> THEN Summary(v_events)
                         ELSE Summary(v_events)
                              @@ [tables |-> Tables(v_events, top_n)]
    /\ UNCHANGED <<other_vars, match_vars,
                   top_n, agent_vars, env_vars, v_off, v_events>>

(***************************************************************************)
(* The run of one agent                                                    *)
(***************************************************************************)

Init ==
    /\ procs \in {t \in [Pids -> {NoProc, POllama, PBoth, PDenied}] :
                    \A p \in Pids : t[p] \in ProcKinds(p) \cup {NoProc}}
    /\ fault \in {"none", "perm", "full"}
    /\ file = <<>>
    /\ exists = FALSE
    /\ once \in BOOLEAN
    /\ pc = "call"
    /\ seen = {}
    /\ events_written = 0
    /\ events = 0
    /\ todo = <<>>
    /\ info = NoInfo
    /\ sig_i = 1
    /\ buf = <<>>
    /\ is_open = FALSE
    /\ reported = FALSE
    /\ cycle = 0
    /\ start_len = 0
    /\ io_failed = FALSE
    /\ seen0 = {}
    /\ skipped = FALSE
    /\ v_pc = "idle"
    /\ v_off = 0
    /\ v_events = <<>>
    /\ v_out = NoOutput
    /\ top_n = 5
    /\ m_sig = SIGNATURES[1]
    /\ m_info = NoInfo
    /\ m_out = "none"
    /\ o_seen = {}

Next ==
    \/ ScanBegin
    \/ NextProc
    \/ Emit
    \/ ProcDone
    \/ ScanEnd
    \/ Sleep
    \/ Interrupt
    \/ Spawn
    \/ Exit
    \/ Exec
    \/ FaultBegins
    \/ FaultEnds

Spec == Init /\ [][Next]_vars

(***************************************************************************)
(* The viewer run on a log                                                 *)
(***************************************************************************)

\* lines of a log the viewer is given
MaxLines == 3

\* the values of --top the viewer is run with (5 is the default)
TopNs == {0, 1, 2, 5}

InfoOf(p, proc) ==
    [pid |-> p, name |-> proc.name, cmdline |-> proc.cmdline,
     username |-> proc.username]

\* two records as the agent writes them
RecA == Line(InfoOf(1234, POllama), SIGNATURES[1], 1)
RecB == Line(InfoOf(4321, PBoth), SIGNATURES[6], 2)

\* The lines a log can hold: records, a record cut short, text that is no
\* JSON, JSON that is no object, an object that is no event, an object whose
\* risk is a list, a blank line.
ViewLines ==
    {RecA, RecB,
     <<RecA[1], RecA[2], Newline>>,
     <<Junk, Newline>>,
     <<Bare(JNum(42)), Newline>>,
     <<LBrace, Members(<<<<"note", JText("x")>>>>), RBrace, Newline>>,
     <<LBrace, Members(<<<<"risk", JList(<<JText("high")>>)>>>>), RBrace,
       Newline>>,
     <<Space, Newline>>}

RECURSIVE Concat(_)
Concat(ls) == IF ls = <<>> THEN <<>> ELSE Head(ls) \o Concat(Tail(ls))

ViewFiles ==
    {Concat(ls) : ls \in UNION {[1..n -> ViewLines] : n \in 0..MaxLines}}

ViewInit ==
    /\ procs = [p \in Pids |-> NoProc]
    /\ fault = "none"
    /\ \/ exists = TRUE /\ file \in ViewFiles
       \/ exists = FALSE /\ file = <<>>
    /\ once = TRUE
    /\ pc = "exit"
    /\ seen = {}
    /\ events_written = 0
    /\ events = 0
    /\ todo = <<>>
    /\ info = NoInfo
    /\ sig_i = 1
    /\ buf = <<>>
    /\ is_open = FALSE
    /\ reported = FALSE
    /\ cycle = 0
    /\ start_len = 0
    /\ io_failed = FALSE
    /\ seen0 = {}
    /\ skipped = FALSE
    /\ v_pc = "start"
    /\ v_off = 0
    /\ v_events = <<>>
    /\ v_out = NoOutput
    /\ top_n \in TopNs
    /\ m_sig = SIGNATURES[1]
    /\ m_info = NoInfo
    /\ m_out = "none"
    /\ o_seen = {}

ViewNext ==
    \/ ViewStart
    \/ ViewLine
    \/ ViewEof
    \/ ViewSummary

SpecView == ViewInit /\ [][ViewNext]_vars

(***************************************************************************)
(* What the log holds                                                      *)
(***************************************************************************)

IsPrefix(a, b) == Len(a) <= Len(b) /\ SubSeq(b, 1, Len(a)) = a

\* the dedup key a members token carries
KeyOfMembers(tok) == <<DictOf(tok.m)["pid"].v, DictOf(tok.m)["signature_name"].v>>

\* The places of toks where a complete Event Record for key stands: brace,
\* members, brace, line terminator.
RecordsAt(toks, key) ==
    {i \in 1..(Len(toks) - 3) :
        /\ toks[i].t = "{"
        /\ toks[i + 1].t = "members"
        /\ KeyOfMembers(toks[i + 1]) = key
        /\ toks[i + 2].t = "}"
        /\ toks[i + 3].t = "nl"}

AllKeys == Pids \X SigNames

\* the number of complete Event Records in toks
NumRecords(toks) ==
    Cardinality({<<i, k>> \in (1..Len(toks)) \X AllKeys : i \in RecordsAt(toks, k)})

\* what the current (last) cycle added to the file
AddedThisCycle == SubSeq(file, start_len + 1, Len(file))

\* the signature with a given name
SigNamed(n) == CHOOSE sg \in {SIGNATURES[i] : i \in 1..Len(SIGNATURES)} : sg.name = n

\* The keys of the processes that are in the table, readable, and match.
Matching ==
    {k \in AllKeys :
        /\ procs[k[1]].alive
        /\ procs[k[1]].access
        /\ match_signature(SigNamed(k[2]), procs[k[1]])}

\* The step that ends a cycle whose loop ran to its end: process_iter is
\* exhausted and scan_once returns.
CycleCompletes == pc = "iter" /\ todo = <<>> /\ pc' \in {"sleep", "exit"}

(***************************************************************************)
(* C1.  Within one run, a (pid, signature) pair that matches again in a    *)
(* later cycle is suppressed and exactly one Event Record for it is in the *)
(* log: whenever the scan is at a process one of whose matching keys was   *)
(* already in the dedup set when the cycle began, the log holds exactly    *)
(* one record for that key.                                                *)
(***************************************************************************)
C1_ExactlyOneRecord ==
    pc = "sigs" =>
        \A j \in 1..Len(SIGNATURES) :
            (/\ match_signature(SIGNATURES[j], info)
             /\ <<info.pid, SIGNATURES[j].name>> \in seen0)
            => Cardinality(RecordsAt(file, <<info.pid, SIGNATURES[j].name>>)) = 1

(***************************************************************************)
(* C2.  A log I/O failure in a scan cycle is not fatal: on the step that   *)
(* raises it the failure is reported, the file object is released,         *)
(* scan_once returns its counter, and main is at the sleep (continuous) or *)
(* at its normal end (single scan), never crashed; from the sleep the next *)
(* cycle can begin.                                                        *)
(***************************************************************************)
FailureStep == io_failed' /\ (~io_failed \/ cycle' # cycle)

C2_FailureNotFatal ==
    [][FailureStep =>
         /\ reported'
         /\ ~is_open'
         /\ events' = events_written'
         /\ pc' = (IF once THEN "exit" ELSE "sleep")]_vars

\* a write failed in the first cycle, wholly, and the second cycle is running
C2_Witness ==
    /\ cycle = 2
    /\ pc = "sigs"
    /\ seen # {}
    /\ file = <<>>
    /\ ~once

(***************************************************************************)
(* C3.  A match that a log I/O failure kept from being recorded is tried   *)
(* again: a later cycle that runs to its end with the log writable and     *)
(* without a log failure leaves in the log the record of every (pid,       *)
(* signature) pair whose process is alive, readable and matching.          *)
(***************************************************************************)
C3_RetriedNextCycle ==
    [][(CycleCompletes /\ fault = "none" /\ ~io_failed') =>
         \A k \in Matching : RecordsAt(file', k) # {}]_vars

(***************************************************************************)
(* C4.  Two different signatures that both match a process, neither key    *)
(* seen before in the run, give two records in that cycle, one per         *)
(* signature name, both with the process's pid.                            *)
(* As claimed: at the end of every cycle.                                  *)
(* As amended: at the end of every cycle that ran to its end without a log *)
(* I/O failure.                                                            *)
(***************************************************************************)
\* both records of a process with two fresh matching keys were added in the
\* cycle that ends with this step
BothRecorded ==
    \A k1 \in Matching, k2 \in Matching :
        (k1[1] = k2[1] /\ k1[2] # k2[2] /\ k1 \notin seen0 /\ k2 \notin seen0)
        => /\ RecordsAt(SubSeq(file', start_len + 1, Len(file')), k1) # {}
           /\ RecordsAt(SubSeq(file', start_len + 1, Len(file')), k2) # {}

C5_AppendOnly == [][IsPrefix(file, file')]_vars

\* a cycle has added records after those of an earlier cycle
C5_Witness == start_len > 0 /\ NumRecords(AddedThisCycle) > 0

(***************************************************************************)
(* C6.  What a scan cycle returns is the number of Event Records it added  *)
(* to the log, also when a log I/O failure cut it short.                   *)
(***************************************************************************)
C6_ReturnCountsRecords ==
    (pc \in {"sleep", "exit"} /\ cycle >= 1)
        => events = NumRecords(AddedThisCycle)

(***************************************************************************)
(* The scenario of two processes                                           *)
(***************************************************************************)

\* the users that can own the scenario's processes
ScenarioUsers == {Some("alice"), Some("root"), NoneText}

\* The process table of the scenario: one process named "ollama" with
\* cmdline ["ollama","serve"], one with cmdline ["curl", the OpenAI URL]; the
\* log is writable and the table does not change.
ScenarioInit ==
    /\ \E u1 \in ScenarioUsers, u2 \in ScenarioUsers :
        procs = (1234 :> Proc(Some(ChOllama), Some(<<ChOllama, ChServe>>), u1, TRUE))
                @@ (4321 :> Proc(Some(ChCurl), Some(<<ChCurl, ChUrl>>), u2, TRUE))
    /\ fault = "none"
    /\ file = <<>>
    /\ exists \in BOOLEAN
    /\ once \in BOOLEAN
    /\ pc = "call"
    /\ seen = {}
    /\ events_written = 0
    /\ events = 0
    /\ todo = <<>>
    /\ info = NoInfo
    /\ sig_i = 1
    /\ buf = <<>>
    /\ is_open = FALSE
    /\ reported = FALSE
    /\ cycle = 0
    /\ start_len = 0
    /\ io_failed = FALSE
    /\ seen0 = {}
    /\ skipped = FALSE
    /\ v_pc = "idle"
    /\ v_off = 0
    /\ v_events = <<>>
    /\ v_out = NoOutput
    /\ top_n = 5
    /\ m_sig = SIGNATURES[1]
    /\ m_info = NoInfo
    /\ m_out = "none"
    /\ o_seen = {}

ScenarioNext ==
    \/ ScanBegin
    \/ NextProc
    \/ Emit
    \/ ProcDone
    \/ ScanEnd
    \/ Sleep
    \/ Interrupt

SpecScenario == ScenarioInit /\ [][ScenarioNext]_vars

\* the signature name and risk of each record the viewer's parser finds
SigAndRisk(toks) ==
    [i \in 1..Len(load_events(toks)) |->
        <<load_events(toks)[i].v["pid"].v,
          load_events(toks)[i].v["signature_name"].v,
          load_events(toks)[i].v["risk"].v>>]

(***************************************************************************)
(* C7.  In the scenario the first cycle writes exactly two records, risk   *)
(* medium for ollama_local_llm and high for openai_api_call, and returns   *)
(* 2; every later cycle writes nothing and returns 0.                      *)
(***************************************************************************)
C7_Scenario ==
    (cycle >= 1 /\ pc \in {"sleep", "exit"}) =>
        /\ SigAndRisk(file) = << <<1234, "ollama_local_llm", "medium">>,
                                 <<4321, "openai_api_call", "high">> >>
        /\ events = (IF cycle = 1 THEN 2 ELSE 0)
        /\ start_len = (IF cycle = 1 THEN 0 ELSE Len(file))

\* the second cycle has ended
C7_Witness == cycle = 2 /\ pc = "sleep" /\ events = 0 /\ NumRecords(file) = 2

(***************************************************************************)
(* C8.  A process that is gone or unreadable when its fields are read is   *)
(* skipped and the cycle goes on: every readable process that matches with *)
(* a key not seen before still gets its record in that cycle, and no error *)
(* is reported.                                                            *)
(* As claimed: in every cycle in which a process was skipped.              *)
(* As amended: in every such cycle that has no log I/O failure.            *)
(***************************************************************************)
FreshRecorded ==
    \A k \in Matching \ seen0 :
        RecordsAt(SubSeq(file', start_len + 1, Len(file')), k) # {}

WholeRecordsOnly(toks) ==
    /\ Len(toks) % 4 = 0
    /\ \A q \in 0..((Len(toks) \div 4) - 1) :
          /\ toks[4 * q + 1].t = "{"
          /\ toks[4 * q + 2].t = "members"
          /\ toks[4 * q + 3].t = "}"
          /\ toks[4 * q + 4].t = "nl"

C9_CleanInterrupt ==
    /\ [](~once => pc \notin {"exit", "crashed"})
    /\ [][(Interrupt /\ ~once) =>
            /\ pc' = "stopped"
            /\ ~is_open'
            /\ buf' = <<>>
            /\ WholeRecordsOnly(file')]_vars

(***************************************************************************)
(* C10.  The viewer loads the well-formed event records of the log, in     *)
(* order, and nothing else: a line that is no well-formed event record is  *)
(* not among the events, the total does not count it, and neither          *)
(* load_events nor print_summary raises.                                   *)
(***************************************************************************)
\* a line that is an object with exactly the keys of an Event Record
IsEventLine(l) ==
    /\ Len(l) = 3
    /\ l[1].t = "{"
    /\ l[2].t = "members"
    /\ l[3].t = "}"
    /\ Len(l[2].m) = Len(EventKeys)
    /\ \A i \in 1..Len(EventKeys) : l[2].m[i][1] = EventKeys[i]

RECURSIVE EventLinesFrom(_, _)
EventLinesFrom(toks, off) ==
    IF off >= Len(toks) THEN <<>>
    ELSE LET l == strip(SubSeq(toks, off + 1, LineEnd(toks, off)))
         IN (IF IsEventLine(l) THEN <<JDict(DictOf(l[2].m))>> ELSE <<>>)
            \o EventLinesFrom(toks, LineEnd(toks, off))

C10_MalformedSkipped ==
    /\ v_pc # "raised"
    /\ v_pc \in {"summary", "done"} => v_events = EventLinesFrom(file, 0)
    /\ (v_pc = "done" /\ v_out.block = "summary")
           => v_out.total = Len(EventLinesFrom(file, 0))

(***************************************************************************)
(* C11.  The top-N tables do not depend on the order of the log's lines:   *)
(* whenever the viewer has printed a summary, the tables it printed are    *)
(* the tables of every permutation of the log's lines, for every --top:    *)
(* the same items, counts and order.                                       *)
(***************************************************************************)
RECURSIVE SplitLines(_, _)
SplitLines(toks, off) ==
    IF off >= Len(toks) THEN <<>>
    ELSE <<SubSeq(toks, off + 1, LineEnd(toks, off))>>
         \o SplitLines(toks, LineEnd(toks, off))

Perms(n) == {f \in [1..n -> 1..n] : \A i, j \in 1..n : f[i] = f[j] => i = j}

Permuted(lines, f) == Concat([i \in 1..Len(lines) |-> lines[f[i]]])

C11_OrderInvariant ==
    (v_pc = "done" /\ v_out.block = "summary") =>
        \A f \in Perms(Len(SplitLines(file, 0))) :
            Tables(load_events(Permuted(SplitLines(file, 0), f)), top_n)
                = v_out.tables

(***************************************************************************)
(* C12.  Run on a missing or an empty log, the viewer loads no event,      *)
(* raises nothing, and its summary reports a total of zero events and the  *)
(* time range "unknown".                                                   *)
(***************************************************************************)
C12_EmptyLog ==
    (v_pc \in {"summary", "done", "raised"} /\ (~exists \/ file = <<>>)) =>
        /\ v_pc # "raised"
        /\ v_events = <<>>
        /\ v_pc = "done" =>
              /\ v_out.total = 0
              /\ v_out.time_range = <<"unknown">>

(***************************************************************************)
(* match_signature applied to one signature and one snapshot               *)
(***************************************************************************)

PatUpperLlm == <<"L","L","M">>
PatAcrossArgs == <<"a"," ","s","e","r">>

\* The signatures the matcher is given: the pattern missing, empty, in lower
\* case, in upper case, or spanning two arguments; the match_type missing,
\* empty, one of the two recognised ones, or another.
MatchSigs ==
    LET pats == {<<>>, PatOllama, PatUpperLlm, PatAcrossArgs}
        types == {"", "process_name_contains", "cmdline_contains", "regex"}
    IN {[name |-> "sig", pattern |-> q, match_type |-> t] :
            q \in pats, t \in types}
       \cup {[name |-> "sig", match_type |-> t] : t \in types}
       \cup {[name |-> "sig", pattern |-> q] : q \in pats}
       \cup {[name |-> "sig"]}

\* The snapshots: name and cmdline missing (None), empty or present.
MatchInfos ==
    {[pid |-> 1234, name |-> n, cmdline |-> c, username |-> NoneText] :
        n \in {NoneSeq, Some(<<>>), Some(ChOllama), Some(ChOllamaServer),
               Some(ChBash)},
        c \in {NoneSeq, Some(<<>>), Some(<<ChOllama, ChServe>>),
               Some(<<ChOllamaServer, ChLlmFlag>>), Some(<<ChBash>>)}}

MatchInit ==
    /\ procs = [p \in Pids |-> NoProc]
    /\ fault = "none"
    /\ file = <<>>
    /\ exists = FALSE
    /\ once = TRUE
    /\ pc = "exit"
    /\ seen = {}
    /\ events_written = 0
    /\ events = 0
    /\ todo = <<>>
    /\ info = NoInfo
    /\ sig_i = 1
    /\ buf = <<>>
    /\ is_open = FALSE
    /\ reported = FALSE
    /\ cycle = 0
    /\ start_len = 0
    /\ io_failed = FALSE
    /\ seen0 = {}
    /\ skipped = FALSE
    /\ v_pc = "idle"
    /\ v_off = 0
    /\ v_events = <<>>
    /\ v_out = NoOutput
    /\ top_n = 5
    /\ m_sig \in MatchSigs
    /\ m_info \in MatchInfos
    /\ m_out = "none"
    /\ o_seen = {}

\* the call match_signature(sig, proc_info) and its result
MatchCall ==
    /\ m_out = "none"
    /\ o_seen = {}
    /\ m_out' = IF match_signature(m_sig, m_info) THEN "true" ELSE "false"
    /\ UNCHANGED <<other_vars, agent_vars, env_vars, view_vars, m_sig, m_info>>

MatchNext == MatchCall

SpecMatch == MatchInit /\ [][MatchNext]_vars

\* the pattern and match_type a signature carries, "" for a missing key
PatternOf(sig) == IF "pattern" \in DOMAIN sig THEN sig.pattern ELSE <<>>
TypeOf(sig) == IF "match_type" \in DOMAIN sig THEN sig.match_type ELSE ""
Recognised == {"process_name_contains", "cmdline_contains"}

(***************************************************************************)
(* C13.  A signature whose pattern is empty or missing, or whose           *)
(* match_type is not one of the two recognised types, matches no snapshot: *)
(* the call returns false and does not raise.                              *)
(***************************************************************************)
C13_FailClosed ==
    (m_out # "none" /\ (PatternOf(m_sig) = <<>> \/ TypeOf(m_sig) \notin Recognised))
        => m_out = "false"

\* an empty pattern, which is a substring of every name, was refused
C13_Witness ==
    /\ m_out = "false"
    /\ "pattern" \in DOMAIN m_sig
    /\ m_sig.pattern = <<>>
    /\ TypeOf(m_sig) = "process_name_contains"
    /\ m_info.name = Some(ChOllama)

(***************************************************************************)
(* C14.  For a non-empty pattern and a recognised match_type the call      *)
(* returns true exactly when the pattern occurs, letter case ignored, in   *)
(* the process name (name type) or in the arguments joined by single       *)
(* spaces (cmdline type), a missing name or cmdline counting as empty; and *)
(* the result is the same for the snapshot written in upper case.          *)
(***************************************************************************)
UpperChar(c) ==
    CASE c = "a" -> "A" [] c = "b" -> "B" [] c = "c" -> "C" [] c = "d" -> "D"
      [] c = "e" -> "E" [] c = "f" -> "F" [] c = "g" -> "G" [] c = "h" -> "H"
      [] c = "i" -> "I" [] c = "j" -> "J" [] c = "k" -> "K" [] c = "l" -> "L"
      [] c = "m" -> "M" [] c = "n" -> "N" [] c = "o" -> "O" [] c = "p" -> "P"
      [] c = "q" -> "Q" [] c = "r" -> "R" [] c = "s" -> "S" [] c = "t" -> "T"
      [] c = "u" -> "U" [] c = "v" -> "V" [] c = "w" -> "W" [] c = "x" -> "X"
      [] c = "y" -> "Y" [] c = "z" -> "Z" [] OTHER -> c

Upper(s) == [i \in 1..Len(s) |-> UpperChar(s[i])]

UpperOpt(x) == IF x.some THEN Some(Upper(x.v)) ELSE x

UpperInfo(inf) ==
    [inf EXCEPT !.name = UpperOpt(inf.name),
                !.cmdline = IF inf.cmdline.some
                            THEN Some([i \in 1..Len(inf.cmdline.v) |->
                                          Upper(inf.cmdline.v[i])])
                            ELSE inf.cmdline]

\* the text the signature's type looks at: the name, or the arguments with
\* one space between neighbours
RECURSIVE SpaceJoined(_, _)
SpaceJoined(args, i) ==
    IF i > Len(args) THEN <<>>
    ELSE (IF i > 1 THEN <<" ">> ELSE <<>>) \o args[i] \o SpaceJoined(args, i + 1)

TargetOf(sig, inf) ==
    IF TypeOf(sig) = "process_name_contains"
    THEN (IF inf.name.some THEN inf.name.v ELSE <<>>)
    ELSE (IF inf.cmdline.some THEN SpaceJoined(inf.cmdline.v, 1) ELSE <<>>)

OccursIgnoringCase(pat, text) ==
    \E off \in 0..(Len(text) - Len(pat)) :
        \A j \in 1..Len(pat) : UpperChar(text[off + j]) = UpperChar(pat[j])

C14_CaseInsensitiveSubstring ==
    (m_out # "none" /\ PatternOf(m_sig) # <<>> /\ TypeOf(m_sig) \in Recognised)
        => /\ (m_out = "true") <=> OccursIgnoringCase(PatternOf(m_sig),
                                                      TargetOf(m_sig, m_info))
           /\ match_signature(m_sig, UpperInfo(m_info)) = (m_out = "true")

\* an upper-case name matched a lower-case pattern
C14_Witness ==
    /\ m_out = "true"
    /\ PatternOf(m_sig) = PatOllama
    /\ TypeOf(m_sig) = "process_name_contains"
    /\ m_info.name = Some(ChOllamaServer)

(***************************************************************************)
(* The viewer reading while the agent appends                              *)
(***************************************************************************)

\* The agent in continuous mode on two matching processes, the device
\* accepting writes or full; the viewer may start at any moment.
SharedInit ==
    /\ procs = (1234 :> POllama) @@ (4321 :> PBoth)
    /\ fault \in {"none", "full"}
    /\ file = <<>>
    /\ exists = FALSE
    /\ once = FALSE
    /\ pc = "call"
    /\ seen = {}
    /\ events_written = 0
    /\ events = 0
    /\ todo = <<>>
    /\ info = NoInfo
    /\ sig_i = 1
    /\ buf = <<>>
    /\ is_open = FALSE
    /\ reported = FALSE
    /\ cycle = 0
    /\ start_len = 0
    /\ io_failed = FALSE
    /\ seen0 = {}
    /\ skipped = FALSE
    /\ v_pc = "start"
    /\ v_off = 0
    /\ v_events = <<>>
    /\ v_out = NoOutput
    /\ top_n = 5
    /\ m_sig = SIGNATURES[1]
    /\ m_info = NoInfo
    /\ m_out = "none"
    /\ o_seen = {}

SharedNext ==
    \/ ScanBegin
    \/ NextProc
    \/ Emit
    \/ ProcDone
    \/ ScanEnd
    \/ Sleep
    \/ Interrupt
    \/ FaultBegins
    \/ FaultEnds
    \/ ViewStart
    \/ ViewLine
    \/ ViewEof
    \/ ViewSummary

SpecShared == SharedInit /\ [][SharedNext]_vars

\* an event as the agent serialised it for one of its dedup keys
IntactRecord(evt) ==
    \E p \in Pids, j \in 1..Len(SIGNATURES), now \in 1..cycle :
        /\ <<p, SIGNATURES[j].name>> \in seen
        /\ procs[p].alive
        /\ evt = JDict(DictOf(json_dumps(Event(InfoOf(p, procs[p]),
                                               SIGNATURES[j], now))[2].m))

(***************************************************************************)
(* C15.  A viewer that reads the log while the agent appends to it never   *)
(* loads a corrupt or partial record: every event it has loaded is a       *)
(* record the agent serialised whole; a line that is only partly in the    *)
(* file when it is read is not among the events.                           *)
(***************************************************************************)
C15_NoPartialRecord ==
    \A i \in 1..Len(v_events) : IntactRecord(v_events[i])

\* the viewer has read past a partial line while the agent is in a scan and
\* has loaded a record
C15_Witness ==
    /\ pc \in {"iter", "sigs"}
    /\ v_pc = "read"
    /\ v_off = Len(file)
    /\ ~WholeRecordsOnly(file)
    /\ v_events # <<>>

(***************************************************************************)
(* Two agent instances on one log                                          *)
(***************************************************************************)

\* One write of another agent instance to the same log.  That instance runs
\* the same scan_once with its own dedup set; of its steps only its writes
\* touch the shared log, each the append of whole lines, taken here record
\* by record: a record for a matching key it has not marked yet, appended
\* whole, or cut short when the device is full.
OtherAppend ==
    /\ fault # "perm"
    /\ \E k \in Matching \ o_seen :
        /\ o_seen' = o_seen \cup {k}
        /\ LET line == Line(InfoOf(k[1], procs[k[1]]), SigNamed(k[2]), cycle)
           IN IF fault = "full"
              THEN file' \in TornWrites(file, line)
              ELSE file' = AppendToFile(file, line)
    /\ exists' = TRUE
    /\ UNCHANGED <<match_vars, view_vars, env_vars, once, pc, seen,
                   events_written, events, todo, info, sig_i, buf, is_open,
                   reported, cycle, start_len, io_failed, seen0, skipped>>

WritersInit ==
    /\ procs = (1234 :> NoProc) @@ (4321 :> PBoth)
    /\ fault \in {"none", "full"}
    /\ file = <<>>
    /\ exists = FALSE
    /\ once = FALSE
    /\ pc = "call"
    /\ seen = {}
    /\ events_written = 0
    /\ events = 0
    /\ todo = <<>>
    /\ info = NoInfo
    /\ sig_i = 1
    /\ buf = <<>>
    /\ is_open = FALSE
    /\ reported = FALSE
    /\ cycle = 0
    /\ start_len = 0
    /\ io_failed = FALSE
    /\ seen0 = {}
    /\ skipped = FALSE
    /\ v_pc = "idle"
    /\ v_off = 0
    /\ v_events = <<>>
    /\ v_out = NoOutput
    /\ top_n = 5
    /\ m_sig = SIGNATURES[1]
    /\ m_info = NoInfo
    /\ m_out = "none"
    /\ o_seen = {}

WritersNext ==
    \/ ScanBegin
    \/ NextProc
    \/ Emit
    \/ ProcDone
    \/ ScanEnd
    \/ Sleep
    \/ Interrupt
    \/ OtherAppend

SpecWriters == WritersInit /\ [][WritersNext]_vars

\* every line of toks is accepted by json.loads
LinesParse(toks) ==
    \A i \in 1..Len(SplitLines(toks, 0)) :
        json_loads(strip(SplitLines(toks, 0)[i])).ok

C17_SeenHasRecord ==
    pc \in {"sleep", "exit"} => \A k \in seen : RecordsAt(file, k) # {}

(***************************************************************************)
(* C18.  At most once per run: whatever the processes and the log do, the  *)
(* log of a run never holds two records with the same <<pid, signature     *)
(* name>>, and a key once in the dedup set stays in it.                    *)
(***************************************************************************)
C18_AtMostOnce ==
    /\ [](\A k \in AllKeys : Cardinality(RecordsAt(file, k)) <= 1)
    /\ [][seen \subseteq seen']_vars

\* a pid recorded for one process is now held by another process that
\* matches the same signature, a later cycle has run over it without
\* failure, and the log still holds the one record
C18_Witness ==
    /\ pc = "sleep"
    /\ cycle >= 2
    /\ ~io_failed
    /\ \E k \in seen0 \cap Matching :
        /\ Cardinality(RecordsAt(file, k)) = 1
        /\ \A i \in RecordsAt(file, k) :
              DictOf(file[i + 1].m)["process_name"]
                  # JChars(OrElseSeq(procs[k[1]].name, <<>>))

(***************************************************************************)
(* C19.  A cycle whose open of the log fails enumerates no process,        *)
(* returns 0 and leaves the dedup set and the log as they were; a later    *)
(* cycle that runs without failure from an untouched dedup set and log     *)
(* records every match.                                                    *)
(***************************************************************************)
C19_OpenFailureFrame ==
    /\ [][(ScanBegin /\ fault = "perm") =>
            /\ events' = 0
            /\ seen' = seen
            /\ file' = file
            /\ todo' = <<>>
            /\ ~is_open'
            /\ reported'
            /\ pc' = (IF once THEN "exit" ELSE "sleep")]_vars
    /\ [][(CycleCompletes /\ ~io_failed' /\ cycle >= 2 /\ seen0 = {})
            => FreshRecorded]_vars

\* the second cycle failed at open after a first cycle that wrote records
C19_Witness ==
    /\ cycle = 2
    /\ pc = "sleep"
    /\ fault = "perm"
    /\ io_failed
    /\ events = 0
    /\ seen # {}
    /\ seen = seen0
    /\ start_len > 0
    /\ Len(file) = start_len

====
